---- MODULE Spec2Model ----
(***************************************************************************)
(* Model of the lead-capture site in src/app.py: the two form-submission   *)
(* endpoints (POST /api/lead, POST /api/newsletter) and the CSV record     *)
(* store behind them (ensure_csv_header / save_row / save_lead /           *)
(* save_subscriber), and the read-only side of the site: the page routes,  *)
(* the blog registry, the sitemap, the ad blocks and the background-image  *)
(* lookup with its asset route.                                            *)
(*                                                                         *)
(* A string is a sequence of one-character strings (header column names    *)
(* and a few fixed words are kept as one symbol each).  A record file is   *)
(* either absent or a sequence of such symbols, exactly the characters the *)
(* csv writer puts on disk.  Requests are served by the threads of the     *)
(* development server started by app.run (threaded by default), so the     *)
(* filesystem steps of two handlers can interleave.                        *)
(***************************************************************************)
EXTENDS Integers, Sequences, FiniteSets, TLC

VARIABLES
    file,       \* kind -> [exists, data]: the record file on disk
    pc,         \* thread -> position in the handler
    req,        \* thread -> the request being handled
    job,        \* thread -> [kind, row]: arguments of the running save_row
    resp,       \* thread -> [status, location]: the response sent
    appended,   \* kind -> rows whose append step has run, in order   (history)
    headerWrites, \* kind -> number of header writes performed        (history)
    nreq,       \* requests received so far
    crashes,    \* process crashes so far
    config,     \* the settings read from the environment at import
    fs,         \* directory -> the files in it (static, static/img, images)
    posts       \* BLOG_POSTS, the post registry

\* What the deployment provides and no handler writes.
site == <<config, fs, posts>>

vars == <<file, pc, req, job, resp, appended, headerWrites, nreq, crashes, config, fs, posts>>

(***************************************************************************)
(* Bounds                                                                  *)
(***************************************************************************)
MaxRequests == 2
MaxCrashes == 1

Threads == {"t1", "t2"}
Kinds == {"lead", "subscriber"}

(***************************************************************************)
(* Strings                                                                 *)
(***************************************************************************)
Whitespace == {" ", "\t", "\n", "\r"}

RECURSIVE LStrip(_)
LStrip(s) ==
    IF s # <<>> /\ Head(s) \in Whitespace THEN LStrip(Tail(s)) ELSE s

RECURSIVE RStrip(_)
RStrip(s) ==
    IF s # <<>> /\ s[Len(s)] \in Whitespace
    THEN RStrip(SubSeq(s, 1, Len(s) - 1))
    ELSE s

\* str.strip()
Strip(s) == RStrip(LStrip(s))

\* "@" in email
Contains(s, c) == \E i \in 1..Len(s) : s[i] = c

IsPrefix(s, t) == Len(s) <= Len(t) /\ SubSeq(t, 1, Len(s)) = s

(***************************************************************************)
(* request.form.get / request.headers.get                                  *)
(***************************************************************************)
\* (form.get(k) or "")
GetOrEmpty(form, k) == IF k \in DOMAIN form THEN form[k] ELSE <<>>

\* (form.get(k) or dflt): a missing or empty value gives the default
GetOr(form, k, dflt) ==
    IF k \in DOMAIN form /\ form[k] # <<>> THEN form[k] ELSE dflt

\* headers.get(k, dflt): only a missing header gives the default
HeaderGet(headers, k, dflt) ==
    IF k \in DOMAIN headers THEN headers[k] ELSE dflt

(***************************************************************************)
(* csv.writer(f).writerow(row), default dialect: delimiter ",", quote      *)
(* character '"', minimal quoting, doubled quotes, terminator "\r\n".      *)
(***************************************************************************)
Delimiter == ","
QuoteChar == "\""
LineTerminator == <<"\r", "\n">>

NeedsQuote(field) ==
    \E i \in 1..Len(field) : field[i] \in {Delimiter, QuoteChar, "\r", "\n"}

RECURSIVE DoubleQuotes(_)
DoubleQuotes(field) ==
    IF field = <<>> THEN <<>>
    ELSE (IF Head(field) = QuoteChar THEN <<QuoteChar, QuoteChar>> ELSE <<Head(field)>>)
         \o DoubleQuotes(Tail(field))

EncodeField(field) ==
    IF NeedsQuote(field)
    THEN <<QuoteChar>> \o DoubleQuotes(field) \o <<QuoteChar>>
    ELSE field

RECURSIVE JoinFields(_)
JoinFields(row) ==
    IF row = <<>> THEN <<>>
    ELSE IF Len(row) = 1 THEN EncodeField(row[1])
    ELSE EncodeField(Head(row)) \o <<Delimiter>> \o JoinFields(Tail(row))

EncodeRow(row) == JoinFields(row) \o LineTerminator

(***************************************************************************)
(* The tabular format read back: the rows a csv reader yields for the      *)
(* characters of a file.  Used to state the claims about rows and columns. *)
(* st is the reader's state inside a record: "start" (nothing read yet),   *)
(* "field" (in or at the start of an unquoted field), "quoted" (inside a   *)
(* quoted field), "quote" (just after a quote inside a quoted field).      *)
(***************************************************************************)
\* The first position from i on that holds a character of S, or Len + 1.
NextIn(data, i, S) ==
    LET at == { j \in i..Len(data) : data[j] \in S }
    IN  IF at = {} THEN Len(data) + 1
        ELSE CHOOSE j \in at : \A k \in at : j <= k

\* One record, read from position i: its fields, the position after its
\* terminator, and whether a terminator ended it.
RECURSIVE ReadRecord(_, _, _, _, _)
ReadRecord(data, i, st, row, fld) ==
    IF i > Len(data)
    THEN [row |-> Append(row, fld), next |-> i, complete |-> FALSE]
    ELSE LET c == data[i] IN
         IF st = "quoted"
         THEN LET j == NextIn(data, i, {QuoteChar})
              IN  ReadRecord(data, j + 1, IF j > Len(data) THEN "quoted" ELSE "quote",
                             row, fld \o SubSeq(data, i, j - 1))
         ELSE IF c \in {"\r", "\n"}
         THEN [row |-> IF st = "start" THEN <<>> ELSE Append(row, fld),
               next |-> IF c = "\r" /\ i < Len(data) /\ data[i + 1] = "\n"
                        THEN i + 2 ELSE i + 1,
               complete |-> TRUE]
         ELSE IF c = Delimiter
         THEN ReadRecord(data, i + 1, "field", Append(row, fld), <<>>)
         ELSE IF c = QuoteChar
         THEN IF st = "quote" THEN ReadRecord(data, i + 1, "quoted", row, Append(fld, c))
              ELSE IF fld = <<>> THEN ReadRecord(data, i + 1, "quoted", row, fld)
              ELSE ReadRecord(data, i + 1, "field", row, Append(fld, c))
         ELSE LET j == NextIn(data, i, {Delimiter, QuoteChar, "\r", "\n"})
              IN  ReadRecord(data, j, "field", row, fld \o SubSeq(data, i, j - 1))

RECURSIVE ReadCSV(_, _, _)
ReadCSV(data, i, rows) ==
    IF i > Len(data) THEN [rows |-> rows, complete |-> TRUE]
    ELSE LET r == ReadRecord(data, i, "start", <<>>, <<>>)
         IN  IF r.complete THEN ReadCSV(data, r.next, Append(rows, r.row))
             ELSE [rows |-> Append(rows, r.row), complete |-> FALSE]

\* The rows of a file's characters, a row without terminator included.
Rows(data) == ReadCSV(data, 1, <<>>).rows

\* The characters end where a record ends (or there are none).
EndsAtRecord(data) == ReadCSV(data, 1, <<>>).complete

(***************************************************************************)
(* save_lead / save_subscriber: the fixed header and the row of a payload  *)
(***************************************************************************)
LeadHeader ==
    << <<"created_at_utc">>, <<"name">>, <<"email">>, <<"company">>,
       <<"website">>, <<"budget">>, <<"goal">>, <<"message">>, <<"source">>,
       <<"ip">>, <<"user_agent">> >>

SubscriberHeader ==
    << <<"created_at_utc">>, <<"email">>, <<"source">>, <<"ip">>, <<"user_agent">> >>

Header(kind) == IF kind = "lead" THEN LeadHeader ELSE SubscriberHeader

\* data.get(k, "")
DataGet(data, k) == IF k \in DOMAIN data THEN data[k] ELSE <<>>

\* A row builder that puts the e-mail address in the name column.
LeadRowColumnsSwapped(now, data) ==
    << now, DataGet(data, "email"), DataGet(data, "name"), DataGet(data, "company"),
       DataGet(data, "website"), DataGet(data, "budget"), DataGet(data, "goal"),
       DataGet(data, "message"), DataGet(data, "source"), DataGet(data, "ip"),
       DataGet(data, "user_agent") >>

LeadRow(now, data) ==
    << now, DataGet(data, "name"), DataGet(data, "email"), DataGet(data, "company"),
       DataGet(data, "website"), DataGet(data, "budget"), DataGet(data, "goal"),
       DataGet(data, "message"), DataGet(data, "source"), DataGet(data, "ip"),
       DataGet(data, "user_agent") >>

SubscriberRow(now, data) ==
    << now, DataGet(data, "email"), DataGet(data, "source"), DataGet(data, "ip"),
       DataGet(data, "user_agent") >>

(***************************************************************************)
(* The route handlers' local part: validation and the payload              *)
(***************************************************************************)
\* A validation that forgets the e-mail address.
LeadRejectedEmailUnchecked(form) ==
    \/ Strip(GetOrEmpty(form, "name")) = <<>>
    \/ Strip(GetOrEmpty(form, "message")) = <<>>

\* lead(): "if not name or not email or not message: abort(400)"
LeadRejected(form) ==
    \/ Strip(GetOrEmpty(form, "name")) = <<>>
    \/ Strip(GetOrEmpty(form, "email")) = <<>>
    \/ Strip(GetOrEmpty(form, "message")) = <<>>

\* An address read from the connection only.
ClientIpRemoteOnly(r) == r.remote_addr

\* request.headers.get("X-Forwarded-For", request.remote_addr)
ClientIp(r) == HeaderGet(r.headers, "X-Forwarded-For", r.remote_addr)

\* A payload that keeps the optional values as they were typed.
LeadPayloadOptionalUntrimmed(r) ==
    [name |-> Strip(GetOrEmpty(r.form, "name")),
     email |-> Strip(GetOrEmpty(r.form, "email")),
     company |-> GetOrEmpty(r.form, "company"),
     website |-> GetOrEmpty(r.form, "website"),
     budget |-> GetOrEmpty(r.form, "budget"),
     goal |-> GetOrEmpty(r.form, "goal"),
     message |-> Strip(GetOrEmpty(r.form, "message")),
     source |-> GetOr(r.form, "source", <<"website_form">>),
     ip |-> ClientIp(r),
     user_agent |-> HeaderGet(r.headers, "User-Agent", <<>>)]

\* lead(): "payload"
LeadPayload(r) ==
    [name |-> Strip(GetOrEmpty(r.form, "name")),
     email |-> Strip(GetOrEmpty(r.form, "email")),
     company |-> Strip(GetOrEmpty(r.form, "company")),
     website |-> Strip(GetOrEmpty(r.form, "website")),
     budget |-> Strip(GetOrEmpty(r.form, "budget")),
     goal |-> Strip(GetOrEmpty(r.form, "goal")),
     message |-> Strip(GetOrEmpty(r.form, "message")),
     source |-> Strip(GetOr(r.form, "source", <<"website_form">>)),
     ip |-> ClientIp(r),
     user_agent |-> HeaderGet(r.headers, "User-Agent", <<>>)]

\* A validation that only asks for a non-empty address.
NewsletterRejectedAtUnchecked(form) == Strip(GetOrEmpty(form, "email")) = <<>>

\* newsletter_subscribe(): "if not email or "@" not in email: abort(400)"
NewsletterRejected(form) ==
    LET email == Strip(GetOrEmpty(form, "email"))
    IN  email = <<>> \/ ~Contains(email, "@")

SubscriberPayload(r) ==
    [email |-> Strip(GetOrEmpty(r.form, "email")),
     source |-> Strip(GetOr(r.form, "source", <<"newsletter">>)),
     ip |-> ClientIp(r),
     user_agent |-> HeaderGet(r.headers, "User-Agent", <<>>)]

(***************************************************************************)
(* Files                                                                   *)
(***************************************************************************)
NoFile == [exists |-> FALSE, data |-> <<>>]

\* path.open("w"): create or truncate
OpenForWrite(f) == [exists |-> TRUE, data |-> <<>>]

\* path.open("a"): create if absent, keep the content
OpenForAppend(f) == [exists |-> TRUE, data |-> f.data]

\* The write of a handle opened with "w": at offset 0, over what is there.
WriteAtStart(f, chars) ==
    [exists |-> TRUE,
     data |-> chars \o SubSeq(f.data, Len(chars) + 1, Len(f.data))]

\* The write of a handle opened with "a": at the end of the file.
WriteAtEnd(f, chars) == [exists |-> TRUE, data |-> f.data \o chars]

(***************************************************************************)
(* Requests the model submits                                              *)
(***************************************************************************)
LeadFields ==
    {"name", "email", "company", "website", "budget", "goal", "message", "source"}

Restrict(f, S) == [k \in S |-> f[k]]

\* The values typed into the contact form: plain; padded, with characters
\* the csv writer must quote, and an empty source; and three with one
\* required value blank.
PlainLead ==
    [name |-> <<"n">>, email |-> <<"e", "@">>, company |-> <<"c">>,
     website |-> <<"w">>, budget |-> <<"b">>, goal |-> <<"g">>,
     message |-> <<"m">>, source |-> <<"s">>]

PaddedLead ==
    [name |-> <<" ", "n">>, email |-> <<"e", "@", " ">>, company |-> <<"c", ",">>,
     website |-> <<"\"">>, budget |-> <<>>, goal |-> <<" ">>,
     message |-> <<"m", "\n", "m">>, source |-> <<>>]

LeadValues ==
    { PlainLead, PaddedLead,
      [PlainLead EXCEPT !.name = <<" ">>],
      [PlainLead EXCEPT !.email = <<>>],
      [PlainLead EXCEPT !.message = <<"\n">>] }

\* The fields a submission carries: all; the required ones only; and one
\* required field missing.
LeadFieldSets ==
    { LeadFields, {"name", "email", "message"},
      LeadFields \ {"name"}, LeadFields \ {"email"}, LeadFields \ {"message"} }

LeadForms ==
    LeadValues \cup { Restrict(PlainLead, S) : S \in LeadFieldSets }

PlainSubscriber == [email |-> <<"e", "@">>, source |-> <<"s">>]

NewsletterValues ==
    { PlainSubscriber,
      [email |-> <<" ", "@">>, source |-> <<>>],
      [email |-> <<"e">>, source |-> <<" ">>],
      [email |-> <<" ">>, source |-> <<"s">>],
      [email |-> <<>>, source |-> <<"s">>] }

NewsletterFieldSets == { {"email", "source"}, {"email"}, {"source"} }

NewsletterForms ==
    NewsletterValues \cup { Restrict(PlainSubscriber, S) : S \in NewsletterFieldSets }

\* Request headers: none of the two the handlers read (a direct client), or
\* both (a client behind a proxy).
NoHeaders == [k \in {} |-> <<>>]

ProxyHeaders ==
    [k \in {"X-Forwarded-For", "User-Agent"} |->
        IF k = "User-Agent" THEN <<"u">> ELSE <<"x">>]

RemoteAddr == <<"r">>

\* now_iso(): the wall clock.  The n-th request reads the n-th second.
ClockFace == <<"0", "1", "2", "3", "4", "5", "6", "7", "8", "9">>

NowIso(n) == <<"T", ClockFace[n + 1]>>

Request(route, form, headers) ==
    [route |-> route, form |-> form, headers |-> headers, remote_addr |-> RemoteAddr]

\* A form that brings a timestamp and an address of its own, in fields the
\* handlers do not read.
Stamped(form) ==
    [k \in DOMAIN form \cup {"created_at_utc", "ip"} |->
        IF k = "created_at_utc" THEN <<"T", "9">>
        ELSE IF k = "ip" THEN <<"f">> ELSE form[k]]

\* Every form comes from a direct client, the plain one, with a timestamp
\* and an address of its own, from a proxied client too.
LeadRequests ==
    { Request("/api/lead", form, NoHeaders) : form \in LeadForms }
    \cup { Request("/api/lead", Stamped(PlainLead), ProxyHeaders) }

NewsletterRequests ==
    { Request("/api/newsletter", form, NoHeaders) : form \in NewsletterForms }
    \cup { Request("/api/newsletter", Stamped(PlainSubscriber), ProxyHeaders) }

NoRequest == Request("", NoHeaders, NoHeaders)
NoJob == [kind |-> "", row |-> <<>>]
NoResponse == [status |-> 0, location |-> ""]

Response(status, location) == [status |-> status, location |-> location]

(***************************************************************************)
(* Configuration: the module-level settings, read from the environment     *)
(* once, when the module is imported                                       *)
(***************************************************************************)
\* os.getenv(k, dflt)
Getenv(environ, k, dflt) == IF k \in DOMAIN environ THEN environ[k] ELSE dflt

\* s.rstrip("/")
RECURSIVE RStripSlash(_)
RStripSlash(s) ==
    IF s # <<>> /\ s[Len(s)] = "/" THEN RStripSlash(SubSeq(s, 1, Len(s) - 1)) ELSE s

AdsenseSlots == {"ADSENSE_SLOT_HEADER", "ADSENSE_SLOT_INARTICLE", "ADSENSE_SLOT_SIDEBAR"}

\* CANONICAL_DOMAIN, ADSENSE_ENABLED, ADSENSE_CLIENT, ADSENSE_SLOT_*
LoadConfig(environ) ==
    [CANONICAL_DOMAIN |-> Strip(Getenv(environ, "CANONICAL_DOMAIN", <<>>)),
     ADSENSE_ENABLED |-> Strip(Getenv(environ, "ADSENSE_ENABLED", <<>>)) # <<>>,
     ADSENSE_CLIENT |-> Strip(Getenv(environ, "ADSENSE_CLIENT", <<>>)),
     ADSENSE_SLOT_HEADER |-> Strip(Getenv(environ, "ADSENSE_SLOT_HEADER", <<>>)),
     ADSENSE_SLOT_INARTICLE |-> Strip(Getenv(environ, "ADSENSE_SLOT_INARTICLE", <<>>)),
     ADSENSE_SLOT_SIDEBAR |-> Strip(Getenv(environ, "ADSENSE_SLOT_SIDEBAR", <<>>))]

\* The environments of a deployment: nothing set; every combination of the
\* flag and the client identifier, without slots and with all three; one
\* slot only; whitespace for the flag, for the client identifier and for a
\* slot; and a public domain.
NoEnviron == [k \in {} |-> <<>>]

Setenv(environ, k, v) == [x \in DOMAIN environ \cup {k} |-> IF x = k THEN v ELSE environ[x]]

AllSlots ==
    [k \in AdsenseSlots |->
        IF k = "ADSENSE_SLOT_HEADER" THEN <<"1">>
        ELSE IF k = "ADSENSE_SLOT_INARTICLE" THEN <<"2">> ELSE <<"3">>]

Environs ==
    LET flag == Setenv(NoEnviron, "ADSENSE_ENABLED", <<"1">>)
        client == Setenv(NoEnviron, "ADSENSE_CLIENT", <<"c", "a">>)
        both == Setenv(flag, "ADSENSE_CLIENT", <<"c", "a">>)
        withSlots(e) == [k \in DOMAIN e \cup AdsenseSlots |->
                            IF k \in AdsenseSlots THEN AllSlots[k] ELSE e[k]]
    IN  { NoEnviron, flag, client, both,
          withSlots(NoEnviron), withSlots(flag), withSlots(client), withSlots(both),
          Setenv(both, "ADSENSE_SLOT_HEADER", <<"1">>),
          Setenv(withSlots(both), "ADSENSE_ENABLED", <<" ">>),
          Setenv(withSlots(both), "ADSENSE_CLIENT", <<" ">>),
          Setenv(withSlots(both), "ADSENSE_SLOT_SIDEBAR", <<" ", "\t">>),
          Setenv(withSlots(both), "ADSENSE_ENABLED", <<"0">>),
          Setenv(NoEnviron, "CANONICAL_DOMAIN", <<"d", "/">>) }

\* site_url(path)
SiteUrl(path) ==
    IF config.CANONICAL_DOMAIN # <<>>
    THEN RStripSlash(config.CANONICAL_DOMAIN) \o <<path>>
    ELSE <<path>>

(***************************************************************************)
(* The image folders and the static folder                                 *)
(***************************************************************************)
STATIC_DIR == "static"
STATIC_IMG_DIR == "static/img"
IMAGES_DIR == "images"

\* path.exists() of a file in a folder
FileExists(dir, filename) == dir \in DOMAIN fs /\ filename \in fs[dir]

Folders(static, static_img, images) ==
    [d \in {STATIC_DIR, STATIC_IMG_DIR, IMAGES_DIR} |->
        IF d = STATIC_DIR THEN static ELSE IF d = STATIC_IMG_DIR THEN static_img ELSE images]

\* The deployments' folders: none; the flat folder only; the asset folder
\* only; a file in both; each folder holding what the other lacks, with a
\* file no page uses.
NoFolders == [d \in {} |-> {}]

FileSystems ==
    { NoFolders,
      [d \in {IMAGES_DIR} |-> {"home_bg_1920x1080.jpg", "insights_bg_1920x1080.jpg"}],
      Folders({"site.css"}, {"home_bg_1920x1080.jpg"}, {}),
      Folders({}, {"home_bg_1920x1080.jpg"}, {"home_bg_1920x1080.jpg", "logo.png"}),
      Folders({"site.css"}, {"logo.png", "start_bg_1920x1080.jpg"},
              {"insights_bg_1920x1080.jpg", "thank_you_bg_1920x1080.jpg"}) }

\* The file names a client may ask an asset route for.
FileNames ==
    {"home_bg_1920x1080.jpg", "insights_bg_1920x1080.jpg", "start_bg_1920x1080.jpg",
     "logo.png", "site.css", "missing.png"}

(***************************************************************************)
(* The post registry                                                       *)
(***************************************************************************)
BLOG_POSTS ==
    << [slug |-> "positioning-before-promotion", title |-> "Positioning Before Promotion"],
       [slug |-> "the-signal-audit-framework", title |-> "The Signal Audit Framework"] >>

\* The registry as shipped, and as edited by taking posts out.
Registries ==
    { BLOG_POSTS, <<BLOG_POSTS[1]>>, <<BLOG_POSTS[2]>>, <<>> }

\* The slugs a client may ask for: the shipped ones, and others.
Slugs ==
    {"positioning-before-promotion", "the-signal-audit-framework",
     "unknown-slug", "Positioning-Before-Promotion", "positioning"}

\* What a deployment provides: the shipped site, with one of the
\* environment, the folders and the registry varied at a time.
Sites ==
    { <<LoadConfig(e), NoFolders, BLOG_POSTS>> : e \in Environs }
    \cup { <<LoadConfig(NoEnviron), f, BLOG_POSTS>> : f \in FileSystems }
    \cup { <<LoadConfig(NoEnviron), NoFolders, p>> : p \in Registries }

(***************************************************************************)
(* Init                                                                    *)
(***************************************************************************)
Init ==
    /\ file = [k \in Kinds |-> NoFile]
    /\ pc = [t \in Threads |-> "idle"]
    /\ req = [t \in Threads |-> NoRequest]
    /\ job = [t \in Threads |-> NoJob]
    /\ resp = [t \in Threads |-> NoResponse]
    /\ appended = [k \in Kinds |-> <<>>]
    /\ headerWrites = [k \in Kinds |-> 0]
    /\ nreq = 0
    /\ crashes = 0
    /\ config = LoadConfig(NoEnviron)
    /\ fs = NoFolders
    /\ posts = BLOG_POSTS

(***************************************************************************)
(* Route handlers                                                          *)
(***************************************************************************)
\* abort(code, ...)
Abort(t, r, code) ==
    /\ req' = [req EXCEPT ![t] = r]
    /\ resp' = [resp EXCEPT ![t] = Response(code, "")]
    /\ pc' = [pc EXCEPT ![t] = "done"]
    /\ UNCHANGED job

\* A handler that builds the row and goes on to the redirect without saving.
CallSaveRowSkipped(t, r, kind, row) ==
    /\ req' = [req EXCEPT ![t] = r]
    /\ job' = [job EXCEPT ![t] = [kind |-> kind, row |-> row]]
    /\ pc' = [pc EXCEPT ![t] = "redirect"]
    /\ UNCHANGED resp

\* The call of save_row(path, header, row), up to its first filesystem step.
CallSaveRow(t, r, kind, row) ==
    /\ req' = [req EXCEPT ![t] = r]
    /\ job' = [job EXCEPT ![t] = [kind |-> kind, row |-> row]]
    /\ pc' = [pc EXCEPT ![t] = "exists"]
    /\ UNCHANGED resp

\* POST /api/lead: lead(), through save_lead's call of save_row
Lead(t) ==
    /\ pc[t] = "idle"
    /\ nreq < MaxRequests
    /\ \E r \in LeadRequests :
          IF LeadRejected(r.form)
          THEN Abort(t, r, 400)
          ELSE CallSaveRow(t, r, "lead", LeadRow(NowIso(nreq), LeadPayload(r)))
    /\ nreq' = nreq + 1
    /\ UNCHANGED <<file, appended, headerWrites, crashes, site>>

\* A newsletter handler that saves its row in the lead file.
NewsletterSubscribeToLeads(t) ==
    /\ pc[t] = "idle"
    /\ nreq < MaxRequests
    /\ \E r \in NewsletterRequests :
          IF NewsletterRejected(r.form)
          THEN Abort(t, r, 400)
          ELSE CallSaveRow(t, r, "lead", SubscriberRow(NowIso(nreq), SubscriberPayload(r)))
    /\ nreq' = nreq + 1
    /\ UNCHANGED <<file, appended, headerWrites, crashes, site>>

\* POST /api/newsletter: newsletter_subscribe(), through save_subscriber's
\* call of save_row
NewsletterSubscribe(t) ==
    /\ pc[t] = "idle"
    /\ nreq < MaxRequests
    /\ \E r \in NewsletterRequests :
          IF NewsletterRejected(r.form)
          THEN Abort(t, r, 400)
          ELSE CallSaveRow(t, r, "subscriber", SubscriberRow(NowIso(nreq), SubscriberPayload(r)))
    /\ nreq' = nreq + 1
    /\ UNCHANGED <<file, appended, headerWrites, crashes, site>>

(***************************************************************************)
(* ensure_csv_header and save_row, one filesystem step at a time           *)
(***************************************************************************)
\* A check that also asks for the header of a file that holds nothing.
EnsureCsvHeaderExistsOrEmpty(t) ==
    /\ pc[t] = "exists"
    /\ pc' = [pc EXCEPT ![t] =
                IF file[job[t].kind].exists /\ file[job[t].kind].data # <<>>
                THEN "open_a" ELSE "open_w"]
    /\ UNCHANGED <<file, req, job, resp, appended, headerWrites, nreq, crashes, site>>

\* "if not path.exists():"
EnsureCsvHeaderExists(t) ==
    /\ pc[t] = "exists"
    /\ pc' = [pc EXCEPT ![t] =
                IF file[job[t].kind].exists THEN "open_a" ELSE "open_w"]
    /\ UNCHANGED <<file, req, job, resp, appended, headerWrites, nreq, crashes, site>>

\* "with path.open("w", ...) as f:"
EnsureCsvHeaderOpen(t) ==
    /\ pc[t] = "open_w"
    /\ file' = [file EXCEPT ![job[t].kind] = OpenForWrite(@)]
    /\ pc' = [pc EXCEPT ![t] = "write_header"]
    /\ UNCHANGED <<req, job, resp, appended, headerWrites, nreq, crashes, site>>

\* "w.writerow(header)", on disk when the with block closes the file
EnsureCsvHeaderWrite(t) ==
    /\ pc[t] = "write_header"
    /\ file' = [file EXCEPT ![job[t].kind] =
                  WriteAtStart(@, EncodeRow(Header(job[t].kind)))]
    /\ headerWrites' = [headerWrites EXCEPT ![job[t].kind] = @ + 1]
    /\ pc' = [pc EXCEPT ![t] = "open_a"]
    /\ UNCHANGED <<req, job, resp, appended, nreq, crashes, site>>

\* "with path.open("a", ...) as f:"
SaveRowOpen(t) ==
    /\ pc[t] = "open_a"
    /\ file' = [file EXCEPT ![job[t].kind] = OpenForAppend(@)]
    /\ pc' = [pc EXCEPT ![t] = "write_row"]
    /\ UNCHANGED <<req, job, resp, appended, headerWrites, nreq, crashes, site>>

\* "w.writerow(row)", on disk when the with block closes the file
SaveRowWrite(t) ==
    /\ pc[t] = "write_row"
    /\ file' = [file EXCEPT ![job[t].kind] = WriteAtEnd(@, EncodeRow(job[t].row))]
    /\ appended' = [appended EXCEPT ![job[t].kind] = Append(@, job[t].row)]
    /\ pc' = [pc EXCEPT ![t] = "redirect"]
    /\ UNCHANGED <<req, job, resp, headerWrites, nreq, crashes, site>>

\* Every redirect going to the contact form's confirmation page.
RedirectTargetThankYou(route) == "/thank-you"

\* url_for("thank_you") / url_for("newsletter_thanks")
RedirectTarget(route) ==
    IF route = "/api/lead" THEN "/thank-you" ELSE "/newsletter/thanks"

\* "return redirect(url_for(...), code=302)"
Redirect(t) ==
    /\ pc[t] = "redirect"
    /\ resp' = [resp EXCEPT ![t] = Response(302, RedirectTarget(req[t].route))]
    /\ pc' = [pc EXCEPT ![t] = "done"]
    /\ UNCHANGED <<file, req, job, appended, headerWrites, nreq, crashes, site>>

\* The response is sent and the thread takes the next request.
Finish(t) ==
    /\ pc[t] = "done"
    /\ pc' = [pc EXCEPT ![t] = "idle"]
    /\ req' = [req EXCEPT ![t] = NoRequest]
    /\ job' = [job EXCEPT ![t] = NoJob]
    /\ resp' = [resp EXCEPT ![t] = NoResponse]
    /\ UNCHANGED <<file, appended, headerWrites, nreq, crashes, site>>

(***************************************************************************)
(* The renderer: background images, posts, ad blocks, the shared layout.   *)
(* Rendered markup is the sequence of its fragments.                       *)
(***************************************************************************)
None == "None"

RECURSIVE Concat(_)
Concat(seqs) == IF seqs = <<>> THEN <<>> ELSE Head(seqs) \o Concat(Tail(seqs))

Occurs(seq, x) == \E i \in 1..Len(seq) : seq[i] = x

Count(seq, x) == Cardinality({ i \in 1..Len(seq) : seq[i] = x })

NoPath == [parent |-> None, name |-> None]

\* A lookup that forgets the flat folder.
FindBgFileFirstOnly(filename) ==
    IF FileExists(STATIC_IMG_DIR, filename)
    THEN [parent |-> STATIC_IMG_DIR, name |-> filename]
    ELSE NoPath

\* find_bg_file(filename)
FindBgFile(filename) ==
    IF FileExists(STATIC_IMG_DIR, filename)
    THEN [parent |-> STATIC_IMG_DIR, name |-> filename]
    ELSE IF FileExists(IMAGES_DIR, filename)
    THEN [parent |-> IMAGES_DIR, name |-> filename]
    ELSE NoPath

\* bg_image_for: "mapping"
BgMapping ==
    [home |-> "home_bg_1920x1080.jpg",
     insights |-> "insights_bg_1920x1080.jpg",
     start |-> "start_bg_1920x1080.jpg",
     privacy |-> "privacy_bg_1920x1080.jpg",
     terms |-> "terms_bg_1920x1080.jpg",
     thank_you |-> "thank_you_bg_1920x1080.jpg",
     blog |-> "insights_bg_1920x1080.jpg"]

\* bg_image_for(page)
BgImageFor(page) ==
    IF page \notin DOMAIN BgMapping THEN None
    ELSE IF FindBgFile(BgMapping[page]) # NoPath
    THEN "/static/img/" \o BgMapping[page]
    ELSE None

NoPost == [slug |-> None, title |-> None]

\* A lookup that does not compare the slug.
GetPostAnySlug(slug) == IF posts = <<>> THEN NoPost ELSE posts[1]

\* get_post(slug): the first post with that slug, in list order
GetPost(slug) ==
    LET at == { i \in 1..Len(posts) : posts[i].slug = slug }
    IN  IF at = {} THEN NoPost
        ELSE posts[CHOOSE i \in at : \A j \in at : i <= j]

\* The complete markup of one ad unit.
AdBlock(client, slot) ==
    <<"<div class=adbox>", "data-ad-client=">> \o client
        \o <<"data-ad-slot=">> \o slot \o <<"</div>">>

\* An ad unit that does not ask for the client identifier.
AdsenseAdUnitClientUnchecked(slot) ==
    IF ~(config.ADSENSE_ENABLED /\ slot # <<>>) THEN <<>>
    ELSE AdBlock(config.ADSENSE_CLIENT, slot)

\* adsense_ad_unit(slot)
AdsenseAdUnit(slot) ==
    IF ~(config.ADSENSE_ENABLED /\ config.ADSENSE_CLIENT # <<>> /\ slot # <<>>) THEN <<>>
    ELSE AdBlock(config.ADSENSE_CLIENT, slot)

\* "{% if ad_... %} <div ...>{{ ad_...|safe }}</div> {% endif %}"
AdPlace(ad) == IF ad # <<>> THEN <<"<div>">> \o ad \o <<"</div>">> ELSE <<>>

\* HERO_OPEN
HeroOpen(hero_bg_url) ==
    IF hero_bg_url # None THEN <<"hero-bg", hero_bg_url>> ELSE <<"hero-bg fallback">>

\* The body templates; "{hero}" stands for HERO_OPEN.
HOME_BODY == <<"{hero}", "home">>
INSIGHTS_BODY == <<"{hero}", "insights">>
START_BODY == <<"start">>
THANKS_BODY == <<"thanks">>
NEWSLETTER_THANKS_BODY == <<"newsletter thanks">>
PRIVACY_BODY == <<"privacy">>
TERMS_BODY == <<"terms">>

\* BLOG_LIST_BODY rendered with posts and ad_sidebar
BlogListBody(ad_sidebar) ==
    <<"blog">>
    \o Concat([i \in 1..Len(posts) |-> <<"/blog/" \o posts[i].slug, posts[i].title>>])
    \o AdPlace(ad_sidebar)

\* BLOG_POST_BODY rendered with post and the three ad units
BlogPostBody(post, ad_header, ad_inarticle, ad_sidebar) ==
    <<"<h1>", post.title, "</h1>">> \o AdPlace(ad_header)
    \o <<"postbody">> \o AdPlace(ad_inarticle) \o AdPlace(ad_sidebar)

\* render_template_string(body_html, hero_bg_url=...)
RenderBody(body_html, hero_bg_url) ==
    Concat([i \in 1..Len(body_html) |->
              IF body_html[i] = "{hero}" THEN HeroOpen(hero_bg_url) ELSE <<body_html[i]>>])

\* The page-level ad script of BASE: "{% if adsense_enabled %}"
AdScript ==
    IF config.ADSENSE_ENABLED /\ config.ADSENSE_CLIENT # <<>>
    THEN <<"adsbygoogle.js?client=">> \o config.ADSENSE_CLIENT
    ELSE <<>>

APP_NAME == "J Supreme Marketing"

\* render_page(body_html, page=, title=, desc=)
RenderPage(path, body_html, page, title) ==
    <<"<title>">> \o title \o <<"</title>", "canonical=">> \o SiteUrl(path)
    \o AdScript \o <<"<body>">> \o RenderBody(body_html, BgImageFor(page)) \o <<"</body>">>

\* The page handlers: endpoint -> its route, body template, background key
\* and title.
Pages ==
    [home |-> [rule |-> "/", body |-> HOME_BODY, page |-> "home",
               title |-> <<APP_NAME, " | ", "Strategy-led Marketing">>],
     insights |-> [rule |-> "/insights", body |-> INSIGHTS_BODY, page |-> "insights",
                   title |-> <<APP_NAME, " | ", "Insights">>],
     start |-> [rule |-> "/start", body |-> START_BODY, page |-> "start",
                title |-> <<APP_NAME, " | ", "Request a Signal Audit">>],
     thank_you |-> [rule |-> "/thank-you", body |-> THANKS_BODY, page |-> "thank_you",
                    title |-> <<APP_NAME, " | ", "Thank You">>],
     newsletter_thanks |-> [rule |-> "/newsletter/thanks", body |-> NEWSLETTER_THANKS_BODY,
                            page |-> "insights", title |-> <<APP_NAME, " | ", "Subscribed">>],
     privacy |-> [rule |-> "/privacy", body |-> PRIVACY_BODY, page |-> "privacy",
                  title |-> <<APP_NAME, " | ", "Privacy Policy">>],
     terms |-> [rule |-> "/terms", body |-> TERMS_BODY, page |-> "terms",
                title |-> <<APP_NAME, " | ", "Terms">>]]

\* url_for(endpoint) of the routes without arguments
UrlFor(endpoint) ==
    IF endpoint \in DOMAIN Pages THEN Pages[endpoint].rule
    ELSE IF endpoint = "blog" THEN "/blog"
    ELSE IF endpoint = "lead" THEN "/api/lead"
    ELSE None

\* url_for("blog_post", slug=slug)
UrlForBlogPost(slug) == "/blog/" \o slug

(***************************************************************************)
(* robots.txt and sitemap.xml                                              *)
(***************************************************************************)
\* robots(): the three lines
RobotsTxt == <<"User-agent: *", "Allow: /", "Sitemap: ">> \o SiteUrl("/sitemap.xml")

SitemapEntry(loc, changefreq, priority) ==
    [loc |-> loc, changefreq |-> changefreq, priority |-> priority]

\* sitemap(): "pages", the fixed entries followed by one per post
SitemapPages ==
    << SitemapEntry(SiteUrl(UrlFor("home")), "weekly", "1.0"),
       SitemapEntry(SiteUrl(UrlFor("insights")), "weekly", "0.7"),
       SitemapEntry(SiteUrl(UrlFor("blog")), "weekly", "0.7"),
       SitemapEntry(SiteUrl(UrlFor("start")), "monthly", "0.7"),
       SitemapEntry(SiteUrl(UrlFor("privacy")), "yearly", "0.2"),
       SitemapEntry(SiteUrl(UrlFor("terms")), "yearly", "0.2"),
       SitemapEntry(SiteUrl(UrlFor("thank_you")), "yearly", "0.1") >>
    \o [i \in 1..Len(posts) |->
          SitemapEntry(SiteUrl(UrlForBlogPost(posts[i].slug)), "monthly", "0.6")]

\* sitemap(): the lines of the document
SitemapXml ==
    <<"<?xml?>", "<urlset>">>
    \o Concat([i \in 1..Len(SitemapPages) |->
                 <<"<url>", "<loc>">> \o SitemapPages[i].loc
                 \o <<"</loc>", "<changefreq>", SitemapPages[i].changefreq, "</changefreq>",
                      "<priority>", SitemapPages[i].priority, "</priority>", "</url>">>])
    \o <<"</urlset>">>

(***************************************************************************)
(* The GET routes and the alias of the lead endpoint                       *)
(***************************************************************************)
PageResponse(status, body) == [status |-> status, location |-> "", body |-> body]

Get(path) == Request(path, NoHeaders, NoHeaders)

\* A handler that answers at once: the request is taken and the response
\* is ready.
Answer(t, r, response) ==
    /\ pc[t] = "idle"
    /\ nreq < MaxRequests
    /\ req' = [req EXCEPT ![t] = r]
    /\ resp' = [resp EXCEPT ![t] = response]
    /\ pc' = [pc EXCEPT ![t] = "done"]
    /\ nreq' = nreq + 1
    /\ UNCHANGED <<file, job, appended, headerWrites, crashes, site>>

\* A page handler: "return render_page(BODY, page=..., title=..., desc=...)"
PageView(t, endpoint) ==
    LET p == Pages[endpoint]
    IN  Answer(t, Get(p.rule), PageResponse(200, RenderPage(p.rule, p.body, p.page, p.title)))

Home(t) == PageView(t, "home")
Insights(t) == PageView(t, "insights")
Start(t) == PageView(t, "start")
ThankYou(t) == PageView(t, "thank_you")
NewsletterThanks(t) == PageView(t, "newsletter_thanks")
Privacy(t) == PageView(t, "privacy")
Terms(t) == PageView(t, "terms")

\* GET /blog: blog()
Blog(t) ==
    Answer(t, Get("/blog"),
           PageResponse(200,
               RenderPage("/blog", BlogListBody(AdsenseAdUnit(config.ADSENSE_SLOT_SIDEBAR)),
                          "blog", <<APP_NAME, " | ", "Blog">>)))

\* The page of a post.
BlogPostPage(path, post) ==
    RenderPage(path,
               BlogPostBody(post,
                            AdsenseAdUnit(config.ADSENSE_SLOT_HEADER),
                            AdsenseAdUnit(config.ADSENSE_SLOT_INARTICLE),
                            AdsenseAdUnit(config.ADSENSE_SLOT_SIDEBAR)),
               "blog", <<APP_NAME, " | ", post.title>>)

\* GET /blog/<slug>: blog_post(slug)
BlogPost(t) ==
    \E slug \in Slugs :
       LET post == GetPost(slug)
           path == UrlForBlogPost(slug)
       IN  IF post = NoPost
           THEN Answer(t, Get(path), Response(404, ""))
           ELSE Answer(t, Get(path), PageResponse(200, BlogPostPage(path, post)))

\* GET /robots.txt: robots()
Robots(t) == Answer(t, Get("/robots.txt"), PageResponse(200, RobotsTxt))

\* GET /sitemap.xml: sitemap()
Sitemap(t) == Answer(t, Get("/sitemap.xml"), PageResponse(200, SitemapXml))

\* GET /static/<filename>: static_files(filename), for files outside img/
StaticFiles(t) ==
    \E filename \in FileNames :
       LET path == "/static/" \o filename
       IN  IF STATIC_DIR \notin DOMAIN fs
           THEN Answer(t, Get(path), Response(404, ""))
           ELSE IF FileExists(STATIC_DIR, filename)
           THEN Answer(t, Get(path), PageResponse(200, <<STATIC_DIR, filename>>))
           ELSE Answer(t, Get(path), Response(404, ""))

\* GET /static/img/<filename>: static_img_files(filename)
StaticImgFiles(t) ==
    \E filename \in FileNames :
       LET path == "/static/img/" \o filename
           p == FindBgFile(filename)
       IN  IF p = NoPath
           THEN Answer(t, Get(path), Response(404, ""))
           ELSE Answer(t, Get(path), PageResponse(200, <<p.parent, p.name>>))

\* The submissions a client may send to the alias: the contact forms.
AliasRequests ==
    { Request("/lead", form, NoHeaders) : form \in LeadForms }
    \cup { Request("/lead", Stamped(PlainLead), ProxyHeaders) }

\* An alias that validates the form before it redirects.
LeadAliasValidating(t) ==
    \E r \in AliasRequests :
       IF LeadRejected(r.form)
       THEN Answer(t, r, Response(400, ""))
       ELSE Answer(t, r, Response(307, UrlFor("lead")))

\* POST /lead: lead_alias()
LeadAlias(t) ==
    \E r \in AliasRequests : Answer(t, r, Response(307, UrlFor("lead")))

\* The client obeys the 307: it sends the same method, form and headers to
\* the Location, where lead() handles them.
FollowRedirect(t) ==
    /\ pc[t] = "done"
    /\ resp[t].status = 307
    /\ nreq < MaxRequests
    /\ LET r == Request(resp[t].location, req[t].form, req[t].headers)
       IN  IF LeadRejected(r.form)
           THEN Abort(t, r, 400)
           ELSE CallSaveRow(t, r, "lead", LeadRow(NowIso(nreq), LeadPayload(r)))
    /\ nreq' = nreq + 1
    /\ UNCHANGED <<file, appended, headerWrites, crashes, site>>

(***************************************************************************)
(* Faults: a failing open or write (permissions, disk full), and a crash   *)
(* of the process.  Neither ensure_csv_header, save_row, save_lead,        *)
(* save_subscriber nor the route handlers catch an exception, so an        *)
(* OSError leaves the handler and the framework answers 500.               *)
(***************************************************************************)
\* The characters the thread's pending write would put on disk.
PendingWrite(t) ==
    IF pc[t] = "write_header" THEN EncodeRow(Header(job[t].kind))
    ELSE IF pc[t] = "write_row" THEN EncodeRow(job[t].row)
    ELSE <<>>

\* Where a write that does not complete may stop: after its first
\* character, half way, or before its last character (inside the line
\* terminator).
TornLengths(chars) ==
    { n \in {1, Len(chars) \div 2, Len(chars) - 1} : 0 < n /\ n < Len(chars) }

\* The file after the first n characters of the thread's pending write.
PartialWrite(t, n) ==
    LET chars == SubSeq(PendingWrite(t), 1, n)
        f == file[job[t].kind]
    IN  IF n = 0 THEN f
        ELSE IF pc[t] = "write_header" THEN WriteAtStart(f, chars)
        ELSE WriteAtEnd(f, chars)

\* An exception caught and dropped: the handler goes on to its redirect.
RaiseSwallowed(t) ==
    /\ pc' = [pc EXCEPT ![t] = "redirect"]
    /\ UNCHANGED resp

\* The unhandled exception: the handler ends, the response is a 500.
Raise(t) ==
    /\ resp' = [resp EXCEPT ![t] = Response(500, "")]
    /\ pc' = [pc EXCEPT ![t] = "done"]

\* open() or the write raises OSError; a failing write may have written a
\* part of its characters.
IOError(t) ==
    /\ pc[t] \in {"open_w", "write_header", "open_a", "write_row"}
    /\ \E n \in {0} \cup TornLengths(PendingWrite(t)) :
          file' = [file EXCEPT ![job[t].kind] = PartialWrite(t, n)]
    /\ Raise(t)
    /\ UNCHANGED <<req, job, appended, headerWrites, nreq, crashes, site>>

\* The process dies and is restarted: every handler in flight is gone, the
\* files stay; a write in progress may have written a part of its characters.
Crash ==
    /\ crashes < MaxCrashes
    /\ \E t \in Threads : pc[t] # "idle"
    /\ \/ UNCHANGED file
       \/ \E t \in Threads : \E n \in TornLengths(PendingWrite(t)) :
             file' = [file EXCEPT ![job[t].kind] = PartialWrite(t, n)]
    /\ pc' = [t \in Threads |-> "idle"]
    /\ req' = [t \in Threads |-> NoRequest]
    /\ job' = [t \in Threads |-> NoJob]
    /\ resp' = [t \in Threads |-> NoResponse]
    /\ crashes' = crashes + 1
    /\ UNCHANGED <<appended, headerWrites, nreq, site>>

Step(t) ==
    \/ Lead(t)
    \/ NewsletterSubscribe(t)
    \/ EnsureCsvHeaderExists(t)
    \/ EnsureCsvHeaderOpen(t)
    \/ EnsureCsvHeaderWrite(t)
    \/ SaveRowOpen(t)
    \/ SaveRowWrite(t)
    \/ Redirect(t)
    \/ Finish(t)

Next == \E t \in Threads : Step(t)

Spec == Init /\ [][Next]_vars

\* The server handling one request at a time, with failing filesystem calls
\* and crashes.
NextFault ==
    \/ Step("t1")
    \/ IOError("t1")
    \/ Crash

SpecFault == Init /\ [][NextFault]_vars

\* The deployments: the shipped site with one of the environment, the
\* folders and the registry varied.
InitSite ==
    /\ file = [k \in Kinds |-> NoFile]
    /\ pc = [t \in Threads |-> "idle"]
    /\ req = [t \in Threads |-> NoRequest]
    /\ job = [t \in Threads |-> NoJob]
    /\ resp = [t \in Threads |-> NoResponse]
    /\ appended = [k \in Kinds |-> <<>>]
    /\ headerWrites = [k \in Kinds |-> 0]
    /\ nreq = 0
    /\ crashes = 0
    /\ \E s \in Sites :
          /\ config = s[1]
          /\ fs = s[2]
          /\ posts = s[3]

View(t) ==
    \/ Home(t)
    \/ Insights(t)
    \/ Blog(t)
    \/ BlogPost(t)
    \/ Start(t)
    \/ ThankYou(t)
    \/ NewsletterThanks(t)
    \/ Privacy(t)
    \/ Terms(t)
    \/ Robots(t)
    \/ Sitemap(t)
    \/ StaticFiles(t)
    \/ StaticImgFiles(t)

\* The read-only routes, one request at a time, on each deployment.
NextSite ==
    \/ View("t1")
    \/ Finish("t1")

SpecSite == InitSite /\ [][NextSite]_vars

\* Every route of the shipped site, one request at a time, with failing
\* filesystem calls.
NextRoutes ==
    \/ Step("t1")
    \/ IOError("t1")
    \/ View("t1")
    \/ LeadAlias("t1")
    \/ FollowRedirect("t1")

SpecRoutes == Init /\ [][NextRoutes]_vars

(***************************************************************************)
(* Helpers of the claims                                                   *)
(***************************************************************************)
\* The thread is inside save_row.
InSaveRow(t) == pc[t] \in {"exists", "open_w", "write_header", "open_a", "write_row"}

\* No save_row is running on the kind's file.
Quiescent(kind) == \A t \in Threads : job[t].kind = kind => ~InSaveRow(t)

\* The thread's handler has just performed its row append.
JustAppended(t) == pc[t] = "write_row" /\ pc'[t] = "redirect"

\* The thread has just taken a request.
JustReceived(t, route) == pc[t] = "idle" /\ pc'[t] # "idle" /\ req'[t].route = route

FileRows(kind) == Rows(file[kind].data)

Last(seq) == seq[Len(seq)]

\* Columns 2..9 of a lead row: name .. source.
FormColumns(row) == SubSeq(row, 2, 9)

\* The submitted form values as they are, "" for an omitted field.
Verbatim(form) ==
    << GetOrEmpty(form, "name"), GetOrEmpty(form, "email"), GetOrEmpty(form, "company"),
       GetOrEmpty(form, "website"), GetOrEmpty(form, "budget"), GetOrEmpty(form, "goal"),
       GetOrEmpty(form, "message"), GetOrEmpty(form, "source") >>

\* The submitted form values trimmed, "" for an omitted optional field and
\* "website_form" for an omitted or empty source.
Trimmed(form) ==
    [i \in 1..8 |->
        IF i = 8 /\ Verbatim(form)[8] = <<>> THEN <<"website_form">>
        ELSE Strip(Verbatim(form)[i])]

NonEmpty(form, keys) == \A k \in keys : GetOrEmpty(form, k) # <<>>

NonBlank(form, keys) == \A k \in keys : Strip(GetOrEmpty(form, k)) # <<>>

Required == {"name", "email", "message"}

(***************************************************************************)
(* C1                                                                      *)
(***************************************************************************)
\* C1, as stated: every POST /api/lead whose name, email and message are
\* non-empty is accepted, and its append makes the lead file one row longer,
\* the new row's name .. source columns being the submitted values verbatim
\* ("" for an omitted field).
C1_VerbatimRow ==
    [][\A t \in Threads :
         /\ (JustReceived(t, "/api/lead") /\ NonEmpty(req'[t].form, Required))
               => pc'[t] = "exists"
         /\ (JustAppended(t) /\ job[t].kind = "lead" /\ EndsAtRecord(file.lead.data))
               => /\ Len(Rows(file'.lead.data)) = Len(Rows(file.lead.data)) + 1
                  /\ FormColumns(Last(Rows(file'.lead.data))) = Verbatim(req[t].form)
      ]_vars

\* C1, amended: every POST /api/lead whose name, email and message are
\* non-empty after trimming whitespace is accepted, and its append extends
\* the lead file by the encoding of one row; when the file ended at the end
\* of a record, it reads back one row longer, and the new row's name ..
\* source columns are the submitted values trimmed, with "" for an omitted
\* company, website, budget or goal and "website_form" for an omitted or
\* empty source.
C1_TrimmedRow ==
    [][\A t \in Threads :
         /\ (JustReceived(t, "/api/lead") /\ NonBlank(req'[t].form, Required))
               => pc'[t] = "exists"
         /\ (JustAppended(t) /\ job[t].kind = "lead")
               => LET before == ReadCSV(file.lead.data, 1, <<>>)
                      after == Rows(file'.lead.data)
                  IN  /\ IsPrefix(file.lead.data, file'.lead.data)
                      /\ Rows(SubSeq(file'.lead.data, Len(file.lead.data) + 1,
                                      Len(file'.lead.data))) = <<job[t].row>>
                      /\ before.complete
                            => /\ Len(after) = Len(before.rows) + 1
                               /\ FormColumns(Last(after)) = Trimmed(req[t].form)
      ]_vars

\* A padded submission with an empty source has been appended to a file
\* that held the header and one row.
C1_Witness ==
    \E t \in Threads :
        /\ pc[t] = "redirect"
        /\ req[t].form = PaddedLead
        /\ Len(FileRows("lead")) = 3
        /\ FormColumns(Last(FileRows("lead"))) = Trimmed(PaddedLead)
        /\ Trimmed(PaddedLead) # Verbatim(PaddedLead)

(***************************************************************************)
(* C2                                                                      *)
(***************************************************************************)
\* The thread has completed an accepted submission of the kind.
Completed(t, kind) == job[t].kind = kind /\ pc[t] \in {"redirect", "done"}

\* C2: once two lead submissions, handled by the two threads in any
\* interleaving of their filesystem steps, have both completed, the lead
\* file holds both records as two distinct, complete rows.
C2_BothRowsKept ==
    (Completed("t1", "lead") /\ Completed("t2", "lead"))
       => \E i, j \in 1..Len(FileRows("lead")) :
             /\ i # j
             /\ FileRows("lead")[i] = job["t1"].row
             /\ FileRows("lead")[j] = job["t2"].row

(***************************************************************************)
(* C3                                                                      *)
(***************************************************************************)
\* C3: whenever a record file exists and no save_row is running on it, its
\* first line is its kind's header, it holds one row per completed append
\* after the header, and every row has as many columns as the header (11
\* for leads, 5 for subscribers).
C3_HeaderAndRows ==
    \A kind \in Kinds :
        (file[kind].exists /\ Quiescent(kind))
           => /\ FileRows(kind) # <<>>
              /\ FileRows(kind)[1] = Header(kind)
              /\ Len(FileRows(kind)) = 1 + Len(appended[kind])
              /\ \A i \in 1..Len(FileRows(kind)) :
                    Len(FileRows(kind)[i]) = Len(Header(kind))
              /\ Len(Header(kind)) = IF kind = "lead" THEN 11 ELSE 5

(***************************************************************************)
(* C4                                                                      *)
(***************************************************************************)
\* C4: a save_row that finds no file creates it with the header as its first
\* row before any data row is written; an append to an existing file writes
\* the data row only; the header is written exactly once over the file's
\* lifetime.
C4_HeaderWrittenOnce ==
    /\ [](\A kind \in Kinds : headerWrites[kind] <= 1)
    /\ [][\A t \in Threads :
            JustAppended(t) =>
               LET kind == job[t].kind IN
               /\ headerWrites[kind] = 1
               /\ FileRows(kind) # <<>> /\ FileRows(kind)[1] = Header(kind)
               /\ file'[kind].data = file[kind].data \o EncodeRow(job[t].row)
         ]_vars

(***************************************************************************)
(* C5                                                                      *)
(***************************************************************************)
\* C5: a POST /api/lead in which name, email or message is missing or empty
\* is answered 400 at once, with both record files as they were (not
\* created, no row added), and no thread is ever inside save_row for such a
\* request.
C5_InvalidLeadRejected ==
    /\ [][\A t \in Threads :
            (JustReceived(t, "/api/lead") /\ ~NonEmpty(req'[t].form, Required))
               => /\ pc'[t] = "done"
                  /\ resp'[t] = Response(400, "")
                  /\ file' = file
                  /\ appended' = appended
         ]_vars
    /\ [](\A t \in Threads :
            (req[t].route = "/api/lead" /\ ~NonEmpty(req[t].form, Required))
               => (pc[t] = "done" /\ resp[t].status = 400))

\* A lead without an email has been answered 400 and no lead file exists.
C5_Witness ==
    \E t \in Threads :
        /\ pc[t] = "done"
        /\ req[t].route = "/api/lead"
        /\ "email" \notin DOMAIN req[t].form
        /\ NonEmpty(req[t].form, {"name", "message"})
        /\ resp[t].status = 400
        /\ ~file.lead.exists

(***************************************************************************)
(* C6                                                                      *)
(***************************************************************************)
\* The characters a step has added at the end of the kind's file.
Added(kind) ==
    SubSeq(file'[kind].data, Len(file[kind].data) + 1, Len(file'[kind].data))

\* C6: a POST /api/newsletter whose email is missing, empty or without "@"
\* is answered 400 at once with both record files as they were; one whose
\* email contains "@" is accepted, and its append adds exactly one
\* 5-column row to the subscriber file.
C6_NewsletterValidation ==
    [][\A t \in Threads :
         /\ JustReceived(t, "/api/newsletter") =>
               IF Contains(GetOrEmpty(req'[t].form, "email"), "@")
               THEN /\ pc'[t] = "exists"
                    /\ job'[t].kind = "subscriber"
                    /\ Len(job'[t].row) = 5
               ELSE /\ pc'[t] = "done"
                    /\ resp'[t] = Response(400, "")
                    /\ file' = file
                    /\ appended' = appended
         /\ (JustAppended(t) /\ job[t].kind = "subscriber") =>
               /\ IsPrefix(file.subscriber.data, file'.subscriber.data)
               /\ Rows(Added("subscriber")) = <<job[t].row>>
               /\ EndsAtRecord(file.subscriber.data) =>
                     Len(Rows(file'.subscriber.data))
                        = Len(Rows(file.subscriber.data)) + 1
      ]_vars

\* An address without "@" has been answered 400 while the address "@" has
\* been appended as the subscriber file's only data row.
C6_Witness ==
    \E t, u \in Threads :
        /\ pc[t] = "done" /\ resp[t].status = 400
        /\ req[t].route = "/api/newsletter" /\ GetOrEmpty(req[t].form, "email") = <<"e">>
        /\ pc[u] = "redirect"
        /\ req[u].route = "/api/newsletter" /\ GetOrEmpty(req[u].form, "email") = <<" ", "@">>
        /\ Len(FileRows("subscriber")) = 2
        /\ FileRows("subscriber")[2][2] = <<"@">>

(***************************************************************************)
(* C7                                                                      *)
(***************************************************************************)
\* C7: when an open or a write of save_row fails, the handler ends there
\* with a 500 response and no redirect target; a handler reaches its
\* redirect only from a complete write of its row, and a 302 is only sent
\* from there.
C7_IOErrorIs500 ==
    [][\A t \in Threads :
         /\ (InSaveRow(t) /\ pc'[t] = "done") => resp'[t] = Response(500, "")
         /\ (pc[t] # "redirect" /\ pc'[t] = "redirect") =>
               /\ pc[t] = "write_row"
               /\ file'[job[t].kind].data
                     = file[job[t].kind].data \o EncodeRow(job[t].row)
         /\ (resp[t].status # 302 /\ resp'[t].status = 302) => pc[t] = "redirect"
      ]_vars

\* A lead's row write has failed half way and the request was answered 500.
C7_Witness ==
    \E t \in Threads :
        /\ pc[t] = "done"
        /\ resp[t] = Response(500, "")
        /\ job[t].kind = "lead"
        /\ Len(FileRows("lead")) = 2
        /\ ~EndsAtRecord(file.lead.data)

C10_RedirectAfterAppend ==
    \A t \in Threads :
        /\ resp[t].status = 302 =>
              /\ \E i \in 1..Len(appended[job[t].kind]) :
                    appended[job[t].kind][i] = job[t].row
              /\ \/ /\ req[t].route = "/api/lead"
                    /\ job[t].kind = "lead"
                    /\ resp[t].location = "/thank-you"
                 \/ /\ req[t].route = "/api/newsletter"
                    /\ job[t].kind = "subscriber"
                    /\ resp[t].location = "/newsletter/thanks"
        /\ (pc[t] = "done" /\ job[t].kind # "") => resp[t].status = 302
        /\ pc[t] = "redirect" =>
              \E i \in 1..Len(appended[job[t].kind]) :
                  appended[job[t].kind][i] = job[t].row

\* A lead has been redirected to /thank-you and a subscriber to
\* /newsletter/thanks, each with its row in its file.
C10_Witness ==
    \E t, u \in Threads :
        /\ resp[t] = Response(302, "/thank-you")
        /\ resp[u] = Response(302, "/newsletter/thanks")
        /\ Last(FileRows("lead")) = job[t].row
        /\ Last(FileRows("subscriber")) = job[u].row

(***************************************************************************)
(* C11                                                                     *)
(***************************************************************************)
\* The confirmation page of each kind of submission.
ConfirmationPage == [lead |-> "/thank-you", subscriber |-> "/newsletter/thanks"]

\* The thread's handler has just answered after its append.
JustRedirected(t) == pc[t] = "redirect" /\ pc'[t] = "done"

\* C11, as stated: after a successful append, each of the two submission
\* endpoints answers with a 303 ("see other") redirect to its confirmation
\* page.
C11_SeeOther ==
    [][\A t \in Threads :
         JustRedirected(t) =>
            /\ resp'[t].status = 303
            /\ resp'[t].location = ConfirmationPage[job[t].kind]
      ]_vars

\* C11, amended: after a successful append, each of the two submission
\* endpoints answers with a 302 ("found") redirect to its confirmation
\* page: /thank-you for a lead, /newsletter/thanks for a subscriber.
C11_Found ==
    [][\A t \in Threads :
         JustRedirected(t) =>
            /\ resp'[t].status = 302
            /\ resp'[t].location = ConfirmationPage[job[t].kind]
            /\ \E i \in 1..Len(appended[job[t].kind]) :
                  appended[job[t].kind][i] = job[t].row
      ]_vars

\* A subscriber, then a lead, have been appended and answered with their
\* redirects.
C11_Witness ==
    /\ Len(appended.lead) = 1
    /\ Len(appended.subscriber) = 1
    /\ \E t \in Threads :
          /\ pc[t] = "done"
          /\ job[t].kind = "lead"
          /\ resp[t].status = 302
          /\ resp[t].location = ConfirmationPage.lead
    /\ \E t \in Threads :
          /\ job[t].kind = "subscriber"
          /\ resp[t].location = ConfirmationPage.subscriber

(***************************************************************************)
(* C12                                                                     *)
(***************************************************************************)
\* C12: POST /lead is always answered 307 with Location /api/lead, whatever
\* the form holds, and changes no record file; the lead file changes only
\* in the save_row of a request sent to /api/lead, and such a request, the
\* re-issued one included, appends its row at most once.
C12_AliasOnlyRedirects ==
    [][\A t \in Threads :
         /\ JustReceived(t, "/lead") =>
               /\ pc'[t] = "done"
               /\ resp'[t] = Response(307, "/api/lead")
               /\ file' = file
               /\ appended' = appended
         /\ (req[t].route = "/lead" /\ req'[t].route = "/lead") => file' = file
         /\ (pc[t] # "idle" /\ file'.lead # file.lead) =>
               /\ req[t].route = "/api/lead"
               /\ InSaveRow(t)
         /\ (JustAppended(t) /\ job[t].kind = "lead") =>
               /\ \A i \in 1..Len(appended.lead) : appended.lead[i] # job[t].row
               /\ appended'.lead = Append(appended.lead, job[t].row)
      ]_vars

\* A submission was answered 307 by the alias, and the POST the client
\* re-issued to /api/lead has stored its one row.
C12_Witness ==
    \E t \in Threads :
        /\ pc[t] = "redirect"
        /\ req[t].route = "/api/lead"
        /\ resp[t].status = 307
        /\ Len(appended.lead) = 1

(***************************************************************************)
(* C13                                                                     *)
(***************************************************************************)
\* The thread has just answered a request for the path.
JustAnswered(t, path) == pc[t] = "idle" /\ pc'[t] = "done" /\ req'[t].route = path

\* The registry's entries with the slug.
Registered(slug) == { i \in 1..Len(posts) : posts[i].slug = slug }

\* C13: GET /blog/<slug> is answered 200 with the post's title in the body
\* when the slug is the slug of an entry of the registry, and 404 for every
\* other slug; no two entries share a slug; no step changes the registry.
C13_BlogPostBySlug ==
    [][/\ \A t \in Threads : \A slug \in Slugs :
            JustAnswered(t, "/blog/" \o slug) =>
               IF Registered(slug) # {}
               THEN /\ resp'[t].status = 200
                    /\ \A i \in Registered(slug) : Occurs(resp'[t].body, posts[i].title)
               ELSE resp'[t] = Response(404, "")
       /\ \A i, j \in 1..Len(posts) : posts[i].slug = posts[j].slug => i = j
       /\ posts' = posts
      ]_vars

\* The second post of the shipped registry has been served, with its title.
C13_Witness ==
    \E t \in Threads :
        /\ pc[t] = "done"
        /\ Len(posts) = 2
        /\ req[t].route = "/blog/" \o posts[2].slug
        /\ resp[t].status = 200
        /\ Occurs(resp[t].body, "The Signal Audit Framework")
        /\ ~Occurs(resp[t].body, posts[1].title)

(***************************************************************************)
(* C14                                                                     *)
(***************************************************************************)
\* The static page routes of the route table.
StaticPageRoutes ==
    {"/", "/insights", "/blog", "/start", "/thank-you", "/newsletter/thanks",
     "/privacy", "/terms"}

\* The permalinks of the posts in the registry.
Permalinks == { "/blog/" \o posts[i].slug : i \in 1..Len(posts) }

\* The paths a sitemap document lists: the last fragment of each <loc>.
Listed(xml) == { xml[i] : i \in { j \in 1..Len(xml) - 1 : xml[j + 1] = "</loc>" } }

\* C14: the sitemap lists every static page route of the route table and
\* one permalink per post of the registry, and nothing else: its entry count
\* is the number of static page routes plus the number of posts, and a
\* post that is not in the registry has no entry.
C14_SitemapListsRouteTable ==
    \A t \in Threads :
        (pc[t] = "done" /\ req[t].route = "/sitemap.xml") =>
            /\ resp[t].status = 200
            /\ Listed(resp[t].body) = StaticPageRoutes \cup Permalinks
            /\ Count(resp[t].body, "<url>") = Cardinality(StaticPageRoutes) + Len(posts)

(***************************************************************************)
(* C15                                                                     *)
(***************************************************************************)
\* The fragments of block stand in seq from position i on.
StandsAt(seq, i, block) ==
    /\ i + Len(block) - 1 <= Len(seq)
    /\ SubSeq(seq, i, i + Len(block) - 1) = block

\* The ad placements of the page at the path.
SlotsOf(path) ==
    IF path = "/blog" THEN {"ADSENSE_SLOT_SIDEBAR"}
    ELSE IF path \in Permalinks THEN AdsenseSlots
    ELSE {}

\* The placements of the page that the configuration allows to render.
Rendering(path) ==
    { s \in SlotsOf(path) :
        config.ADSENSE_ENABLED /\ config.ADSENSE_CLIENT # <<>> /\ config[s] # <<>> }

PagePaths == { Pages[e].rule : e \in DOMAIN Pages } \cup {"/blog"} \cup Permalinks

\* C15: a page holds the complete ad block of a placement if and only if the
\* flag is set, the client identifier is non-empty and the placement's slot
\* identifier is non-empty; it holds no other ad fragment, so no partial
\* block; and it holds the page-level ad script if and only if the flag is
\* set and the client identifier is non-empty.
C15_AdBlocksAllOrNothing ==
    \A t \in Threads :
        (pc[t] = "done" /\ req[t].route \in PagePaths /\ resp[t].status = 200) =>
            LET body == resp[t].body
                path == req[t].route
                starts == { i \in 1..Len(body) : body[i] = "<div class=adbox>" }
            IN  /\ \A s \in Rendering(path) :
                      \E i \in starts :
                          StandsAt(body, i, AdBlock(config.ADSENSE_CLIENT, config[s]))
                /\ \A i \in starts :
                      \E s \in Rendering(path) :
                          StandsAt(body, i, AdBlock(config.ADSENSE_CLIENT, config[s]))
                /\ Cardinality(starts) = Cardinality(Rendering(path))
                /\ Count(body, "data-ad-client=") = Cardinality(starts)
                /\ Count(body, "data-ad-slot=") = Cardinality(starts)
                /\ Occurs(body, "adsbygoogle.js?client=")
                      <=> (config.ADSENSE_ENABLED /\ config.ADSENSE_CLIENT # <<>>)

\* A post has been served with the flag set and a client identifier, a
\* header and an in-article slot, and a sidebar slot of whitespace only: the
\* page holds two blocks and the script.
C15_Witness ==
    \E t \in Threads :
        /\ pc[t] = "done"
        /\ req[t].route \in Permalinks
        /\ resp[t].status = 200
        /\ config.ADSENSE_ENABLED
        /\ config.ADSENSE_CLIENT # <<>>
        /\ config.ADSENSE_SLOT_HEADER # <<>>
        /\ config.ADSENSE_SLOT_SIDEBAR = <<>>
        /\ Count(resp[t].body, "<div class=adbox>") = 2
        /\ Occurs(resp[t].body, "adsbygoogle.js?client=")

(***************************************************************************)
(* C16                                                                     *)
(***************************************************************************)
\* The column of the client address in a row of the kind.
IpColumn == [lead |-> 10, subscriber |-> 4]

\* The address the claim names for a request.
ForwardedOrDirect(r) ==
    IF "X-Forwarded-For" \in DOMAIN r.headers
    THEN r.headers["X-Forwarded-For"] ELSE r.remote_addr

\* What a request says about its own time, if anything.
RequestTimes(r) ==
    { r.form[k] : k \in DOMAIN r.form \cap {"created_at_utc"} }
    \cup { r.headers[k] : k \in DOMAIN r.headers \cap {"Date"} }

\* C16: the record a handler builds has, as its client address, the
\* forwarded-for header's value when the request has that header and the
\* connection's address otherwise, and as its timestamp the server clock's
\* reading at that moment, never a value of the request; the record the
\* store appends is that record.
C16_ClientIpAndServerTime ==
    [][\A t \in Threads :
         /\ (pc[t] = "idle" /\ pc'[t] = "exists") =>
               /\ job'[t].row[IpColumn[job'[t].kind]] = ForwardedOrDirect(req'[t])
               /\ job'[t].row[1] = NowIso(nreq)
               /\ job'[t].row[1] \notin RequestTimes(req'[t])
         /\ JustAppended(t) =>
               /\ Last(appended'[job[t].kind]) = job[t].row
               /\ job[t].row[IpColumn[job[t].kind]] = ForwardedOrDirect(req[t])
               /\ job[t].row[1] \notin RequestTimes(req[t])
      ]_vars

\* A proxied lead that brought a timestamp and an address of its own has
\* been stored with the forwarded address and the server's time, after a
\* direct subscriber stored with the connection's address.
C16_Witness ==
    \E t \in Threads :
        /\ pc[t] = "redirect"
        /\ job[t].kind = "lead"
        /\ RequestTimes(req[t]) # {}
        /\ Last(appended.lead)[10] = <<"x">>
        /\ Last(appended.lead)[1] \in {NowIso(0), NowIso(1)}
        /\ Len(appended.subscriber) = 1
        /\ appended.subscriber[1][4] = RemoteAddr

(***************************************************************************)
(* C17                                                                     *)
(***************************************************************************)
\* The folders, in the order of the lookup, that hold the file.
Holding(filename) ==
    { d \in {STATIC_IMG_DIR, IMAGES_DIR} : d \in DOMAIN fs /\ filename \in fs[d] }

\* The page keys the handlers use, and one no mapping knows.
PageKeys == DOMAIN BgMapping \cup {"newsletter_thanks"}

\* C17: the background image of a page key is /static/img/<file> when the
\* key's file is in static/img or in images, and the no-image value when it
\* is in neither or the key has no file; the lookup takes static/img before
\* images; GET /static/img/<file> is answered 404 exactly when the file is
\* in neither folder, so every URL the resolution returns is served; and
\* neither the resolution nor the route changes the folders or the record
\* files.
C17_BackgroundImageResolution ==
    [][/\ \A k \in PageKeys :
            BgImageFor(k) =
               IF k \in DOMAIN BgMapping /\ Holding(BgMapping[k]) # {}
               THEN "/static/img/" \o BgMapping[k]
               ELSE None
       /\ \A t \in Threads : \A f \in FileNames :
            JustAnswered(t, "/static/img/" \o f) =>
               /\ resp'[t].status = (IF Holding(f) = {} THEN 404 ELSE 200)
               /\ (\E k \in PageKeys : BgImageFor(k) = req'[t].route) => resp'[t].status = 200
               /\ Holding(f) # {} =>
                     resp'[t].body =
                        << (IF STATIC_IMG_DIR \in Holding(f) THEN STATIC_IMG_DIR ELSE IMAGES_DIR), f >>
               /\ fs' = fs
               /\ file' = file
       /\ \A t \in Threads : \A e \in {"home", "insights"} :
            JustAnswered(t, Pages[e].rule) =>
               /\ IF Holding(BgMapping[e]) # {}
                  THEN StandsAt(resp'[t].body, 1 + Len(resp'[t].body) - 4,
                                <<"hero-bg", "/static/img/" \o BgMapping[e], e, "</body>">>)
                  ELSE Occurs(resp'[t].body, "hero-bg fallback")
               /\ fs' = fs
               /\ file' = file
      ]_vars

\* The home page's image, held by the images folder only, has been served
\* from there under the URL the resolution gives.
C17_Witness ==
    \E t \in Threads :
        /\ pc[t] = "done"
        /\ Holding(BgMapping.home) = {IMAGES_DIR}
        /\ req[t].route = BgImageFor("home")
        /\ resp[t].status = 200
        /\ resp[t].body = <<IMAGES_DIR, BgMapping.home>>

(***************************************************************************)
(* C18                                                                     *)
(***************************************************************************)
\* The first line of a file's content, read as a record.
FirstLine(data) == ReadRecord(data, 1, "start", <<>>, <<>>).row

\* The content does not begin with the kind's header.
Headerless(kind, data) == data = <<>> \/ FirstLine(data) # Header(kind)

\* The kind's file is there and its first line is not the header.
LacksHeader(kind) == file[kind].exists /\ Headerless(kind, file[kind].data)

\* A header write is pending on the kind's file.
WritingHeader(kind) == \E t \in Threads : job[t].kind = kind /\ pc[t] = "write_header"

\* C18: ensure_csv_header goes on to write the header only when the path
\* does not exist; a file that is there without the header (empty, or with
\* a cut header) never gets it: appends add their rows to it, no header is
\* written, and the first line of a file that was empty is the data row.
C18_NoHeaderForExistingFile ==
    [][/\ \A t \in Threads :
            (pc[t] = "exists" /\ pc'[t] # "exists" /\ crashes' = crashes) =>
               pc'[t] = (IF file[job[t].kind].exists THEN "open_a" ELSE "open_w")
       /\ \A kind \in Kinds :
            (/\ ~WritingHeader(kind)
             /\ file'[kind] # file[kind] \/ headerWrites'[kind] # headerWrites[kind]
             /\ LacksHeader(kind)) =>
               /\ file'[kind].exists
               /\ Headerless(kind, file'[kind].data)
               /\ headerWrites'[kind] = headerWrites[kind]
       /\ \A t \in Threads :
            (JustAppended(t) /\ LacksHeader(job[t].kind)) =>
               /\ IsPrefix(file[job[t].kind].data \o EncodeRow(job[t].row),
                           file'[job[t].kind].data)
               /\ file[job[t].kind].data = <<>> =>
                     Rows(file'[job[t].kind].data) = <<job[t].row>>
      ]_vars

\* After a stop between creating the lead file and writing its header, a
\* lead has been appended: no header was ever written and the file's only
\* line is the lead's row.
C18_Witness ==
    \E t \in Threads :
        /\ crashes = 1
        /\ pc[t] = "redirect"
        /\ job[t].kind = "lead"
        /\ headerWrites.lead = 0
        /\ FileRows("lead") = <<job[t].row>>

(***************************************************************************)
(* C19                                                                     *)
(***************************************************************************)
\* The value a handler stores for a form field: trimmed, and the endpoint's
\* default for a source that is omitted or empty.
Stored(form, k, dflt) ==
    IF k = "source" /\ GetOrEmpty(form, k) = <<>> THEN dflt ELSE Strip(GetOrEmpty(form, k))

\* The form fields of a lead, in the order of the row's columns 2..9.
FormFields ==
    <<"name", "email", "company", "website", "budget", "goal", "message", "source">>

\* C19: a lead whose name, email or message is missing or holds only
\* whitespace is answered 400 and nothing is saved; an accepted lead's
\* row holds the trimmed name, email, company, website, budget, goal,
\* message and source, and an accepted subscriber's row the trimmed email
\* and source, an omitted or empty source being "website_form" for a lead
\* and "newsletter" for a subscriber; the appended row is that row.
C19_TrimmedBeforeValidation ==
    [][\A t \in Threads :
         /\ JustReceived(t, "/api/lead") =>
               IF \E k \in Required : Strip(GetOrEmpty(req'[t].form, k)) = <<>>
               THEN /\ resp'[t] = Response(400, "")
                    /\ pc'[t] = "done"
                    /\ job'[t] = NoJob
               ELSE /\ pc'[t] = "exists"
                    /\ job'[t].kind = "lead"
                    /\ \A i \in 1..8 :
                          job'[t].row[i + 1] =
                             Stored(req'[t].form, FormFields[i], <<"website_form">>)
         /\ (JustReceived(t, "/api/newsletter") /\ pc'[t] = "exists") =>
               /\ job'[t].row[2] = Stored(req'[t].form, "email", <<>>)
               /\ job'[t].row[3] = Stored(req'[t].form, "source", <<"newsletter">>)
         /\ JustAppended(t) =>
               /\ appended'[job[t].kind] = Append(appended[job[t].kind], job[t].row)
               /\ job[t].kind = "lead" =>
                     FormColumns(Last(appended'.lead)) =
                        [i \in 1..8 |-> Stored(req[t].form, FormFields[i], <<"website_form">>)]
               /\ job[t].kind = "subscriber" =>
                     SubSeq(Last(appended'.subscriber), 2, 3) =
                        << Stored(req[t].form, "email", <<>>),
                           Stored(req[t].form, "source", <<"newsletter">>) >>
      ]_vars

\* A subscriber typed with a leading blank and an empty source has been
\* stored trimmed, with the default source, while a lead whose name is one
\* blank has been answered 400.
C19_Witness ==
    \E t, u \in Threads :
        /\ pc[t] = "redirect"
        /\ req[t].form.email = <<" ", "@">>
        /\ Last(appended.subscriber)[2] = <<"@">>
        /\ Last(appended.subscriber)[3] = <<"newsletter">>
        /\ req[u].route = "/api/lead"
        /\ "name" \in DOMAIN req[u].form
        /\ req[u].form.name = <<" ">>
        /\ resp[u] = Response(400, "")

(***************************************************************************)
(* C20                                                                     *)
(***************************************************************************)
\* The step is the thread's.
Acting(t) == pc'[t] # pc[t] \/ req'[t] # req[t] \/ resp'[t] # resp[t]

\* The route of the request the acting thread is serving.
Serving(t) == IF pc[t] = "idle" THEN req'[t].route ELSE req[t].route

\* C20: a step of a lead request (to /api/lead or to its alias; accepted,
\* rejected or failing) leaves the subscriber file as it is, a step of a
\* newsletter request leaves the lead file as it is, and a step of any
\* other request, all of them GET, leaves both files as they are.
C20_FilesIndependent ==
    [][\A t \in Threads :
         Acting(t) =>
            /\ Serving(t) \in {"/api/lead", "/lead"} =>
                  /\ file'.subscriber = file.subscriber
                  /\ appended'.subscriber = appended.subscriber
            /\ Serving(t) = "/api/newsletter" =>
                  /\ file'.lead = file.lead
                  /\ appended'.lead = appended.lead
            /\ Serving(t) \notin {"/api/lead", "/lead", "/api/newsletter"} =>
                  /\ file' = file
                  /\ appended' = appended
      ]_vars

\* A lead's row write has failed part way, answered 500, next to a
\* subscriber file that holds its header and one row.
C20_Witness ==
    \E t \in Threads :
        /\ pc[t] = "done"
        /\ req[t].route = "/api/lead"
        /\ resp[t].status = 500
        /\ file.lead.exists
        /\ file.lead.data # <<>>
        /\ Len(appended.subscriber) = 1
        /\ file.subscriber.data =
              EncodeRow(SubscriberHeader) \o EncodeRow(appended.subscriber[1])

====
